---- MODULE Spec2Model ----
(***************************************************************************)
(* A model of the NLIDB text-to-SQL boundary: the response decoder of      *)
(* ai_service.get_ai_response, the policy enforcer                          *)
(* sql_validator.validate_sql_query (with the parts of sqlparse it calls)   *)
(* and the request pipeline of app.py.                                      *)
(*                                                                         *)
(* SQL text is a sequence of lexemes.  A word lexeme stands for the word    *)
(* with its own boundaries; " " and "\n" are explicit white space; "--",   *)
(* "/*", "*/" and "'" are the comment and quote delimiters, so that what   *)
(* is a comment and what is a literal is computed by the lexer, as in      *)
(* sqlparse, and not given with the input.                                 *)
(***************************************************************************)
EXTENDS Naturals, Sequences, FiniteSets

VARIABLES
    \* a run of the validator alone
    vpc,         \* "start", "validated", "revalidated"
    sql_query,   \* the value handed to validate_sql_query
    verdict,     \* its result (validated_sql, error)
    reverdict,   \* the result of validating the accepted text again
    \* a run of the decoder alone
    dpc,         \* "start", "decoded", "compared"
    parts,       \* how the generation output is put together
    decoded,     \* the decoder's result (response, error) on the whole output
    decoded0,    \* the decoder's result on the bare object of the output
    \* the request pipeline of app.py
    pc,          \* the stage the script is at
    schema,      \* the text get_database_schema returned
    ai_response, \* Optional[AISqlResponse]
    error,       \* Optional[str] of the last stage
    validated_sql,
    results,
    schema_cache, \* st.cache_data's entry for get_database_schema, or None
    calls,       \* the stage calls of this request, in order, with their argument
    saved,       \* the messages save_message stored during this request
    shown,       \* the number of st.error calls of this request
    \* runs of get_database_schema alone
    engine_db,   \* the database behind each engine
    entry,       \* st.cache_data's entry for get_database_schema, or None
    entry_from,  \* the engine whose inspection filled the entry (history)
    answer       \* the last call: its arguments and what it gave

vvars == <<vpc, sql_query, verdict, reverdict>>

dvars == <<dpc, parts, decoded, decoded0>>

pvars ==
    <<pc, schema, ai_response, error, validated_sql, results, schema_cache, calls, saved,
      shown>>

svars == <<engine_db, entry, entry_from, answer>>

vars == <<vvars, dvars, pvars, svars>>

\* ------------------------------------------------------------------ bounds

MaxSqlLen == 3

MaxMembers == 2

MaxProse == 1

\* --------------------------------------------------------------- constants

\* Python's Optional: None is the empty sequence, a value x is <<x>>.  An error
\* message is a sequence of its pieces.
None == <<>>

Some(x) == <<x>>

\* A JSON value as json.loads returns it: a str or None.
JStr(s) == [type |-> "str", s |-> s]

JNull == [type |-> "NoneType", s |-> <<>>]

\* The lexemes the enumerated SQL texts are made of; the proposed texts below
\* use the word SET as well.
Lexemes ==
    {"SELECT", "DELETE", "drop", "x", ";", "(", ")", "--", "\n", "/*", "/*+", "*/", "'", " "}

FORBIDDEN_KEYWORDS ==
    {"DROP", "DELETE", "INSERT", "UPDATE", "ALTER", "TRUNCATE", "CREATE",
     "GRANT", "REVOKE", "COMMIT", "ROLLBACK", "SET", "EXECUTE", "CALL", "ATTACH",
     "DETACH", "IMPORT", "REINDEX", "RELEASE", "SAVEPOINT", "VACUUM"}

\* A comparison that forgets upper().
NoUpper(w) == w

\* str.upper() on the words of the model.
Upper(w) == IF w = "drop" THEN "DROP" ELSE w

\* ------------------------------------------------------------ sequences

RECURSIVE Flatten(_)
Flatten(ss) == IF ss = <<>> THEN <<>> ELSE Head(ss) \o Flatten(Tail(ss))

\* The least index > i of s holding lexeme c, or 0.
FindAfter(s, i, c) ==
    LET hits == {j \in (i + 1)..Len(s) : s[j] = c}
    IN  IF hits = {} THEN 0 ELSE CHOOSE j \in hits : \A k \in hits : j <= k

\* ----------------------------------------------------------------- lexer

\* sqlparse's token of a word: a keyword followed directly by "(" is a Name
\* ("side effect: change kw to func").
WordKind(w, next) ==
    IF next = "(" THEN "Name"
    ELSE CASE w \in {"SELECT", "DELETE"} -> "DML"
           [] w = "drop" -> "DDL"
           [] w = "SET" -> "Keyword"
           [] OTHER -> "Name"

\* sqlparse.lexer: the patterns are tried at the current position, so the
\* leftmost delimiter decides; a "/*" without "*/" and a "'" without a closing
\* "'" are no comment and no literal.
RECURSIVE LexFrom(_, _)
LexFrom(s, i) ==
    IF i > Len(s) THEN <<>>
    ELSE LET c == s[i]
             nl == FindAfter(s, i, "\n")
             close == FindAfter(s, i, "*/")
             quote == FindAfter(s, i, "'")
             one(k) == <<[k |-> k, v |-> <<c>>]>> \o LexFrom(s, i + 1)
             upto(k, j) == <<[k |-> k, v |-> SubSeq(s, i, j)]>> \o LexFrom(s, j + 1)
         IN  CASE c = "--" -> upto("CommentSingle", IF nl = 0 THEN Len(s) ELSE nl)
               [] c = "/*" -> IF close = 0 THEN one("Operator")
                              ELSE upto("CommentMultiline", close)
               [] c = "/*+" -> IF close = 0 THEN one("Operator")
                               ELSE upto("CommentMultilineHint", close)
               [] c = "*/" -> one("Operator")
               [] c = "'" -> IF quote = 0 THEN one("Error") ELSE upto("String", quote)
               [] c = " " -> one("Whitespace")
               [] c = "\n" -> one("Newline")
               [] c \in {";", "(", ")"} -> one("Punctuation")
               [] OTHER -> one(WordKind(c, IF i < Len(s) THEN s[i + 1] ELSE ""))

Lex(s) == LexFrom(s, 1)

is_whitespace(t) == t.k \in {"Whitespace", "Newline"}

\* ttype in T.Comment: every comment, the optimizer hints /*+ ... */ too.
is_comment(t) == t.k \in {"CommentSingle", "CommentMultiline", "CommentMultilineHint"}

\* The comments strip_comments removes: it keeps the hints.
is_stripped(t) == t.k \in {"CommentSingle", "CommentMultiline"}

is_keyword(t) == t.k \in {"DML", "DDL", "Keyword"}

IsPunct(t, c) == t.k = "Punctuation" /\ t.v = <<c>>

\* ----------------------------------------------------- statement splitter

\* StatementSplitter._change_splitlevel, for the tokens of the model.
ChangeSplitLevel(t) ==
    IF IsPunct(t, "(") THEN 1 ELSE IF IsPunct(t, ")") THEN 0 - 1 ELSE 0

\* StatementSplitter.process.  The level is kept as a pair (up, down) of
\* naturals: level = up - down.
RECURSIVE SplitFrom(_, _, _, _, _, _)
SplitFrom(toks, i, up, down, consume_ws, cur) ==
    IF i > Len(toks)
    THEN IF cur # <<>> /\ ~(\A j \in 1..Len(cur) : is_whitespace(cur[j]))
         THEN <<cur>> ELSE <<>>
    ELSE LET t == toks[i]
             flush == consume_ws /\ t.k \notin {"Whitespace", "CommentSingle"}
             up0 == IF flush THEN 0 ELSE up
             down0 == IF flush THEN 0 ELSE down
             cur0 == IF flush THEN <<>> ELSE cur
             cw0 == IF flush THEN FALSE ELSE consume_ws
             up1 == IF ChangeSplitLevel(t) = 1 THEN up0 + 1 ELSE up0
             down1 == IF IsPunct(t, ")") THEN down0 + 1 ELSE down0
             cw1 == cw0 \/ (up1 <= down1 /\ IsPunct(t, ";"))
             rest == SplitFrom(toks, i + 1, up1, down1, cw1, Append(cur0, t))
         IN  IF flush THEN <<cur>> \o rest ELSE rest

Split(toks) == SplitFrom(toks, 1, 0, 0, FALSE, <<>>)

\* A parse that keeps the first statement only.
ParseFirstOnly(s) ==
    LET stmts == Split(Lex(s)) IN IF stmts = <<>> THEN stmts ELSE <<stmts[1]>>

\* sqlparse.parse: the statements of a text.
Parse(s) == Split(Lex(s))

\* --------------------------------------------------- strip_comments filter

\* StripCommentsFilter._get_insert_token.
InsertToken(t) ==
    IF t.v[Len(t.v)] = "\n" THEN [k |-> "Newline", v |-> <<"\n">>]
    ELSE [k |-> "Whitespace", v |-> <<" ">>]

\* StripCommentsFilter._process with "if" for "while": one comment is stripped.
StripFirstComment(toks) ==
    LET cs == {j \in 1..Len(toks) : toks[j].k \in {"CommentSingle", "CommentMultiline"}}
    IN  IF cs = {} THEN toks
        ELSE LET i == CHOOSE j \in cs : \A k \in cs : j <= k
             IN  SubSeq(toks, 1, i - 1) \o <<[k |-> "Whitespace", v |-> <<" ">>]>>
                 \o SubSeq(toks, i + 1, Len(toks))

\* StripCommentsFilter._process on one statement's tokens.
RECURSIVE StripComments(_)
StripComments(toks) ==
    LET cs == {j \in 1..Len(toks) : is_stripped(toks[j])}
    IN  IF cs = {} THEN toks
        ELSE LET i == CHOOSE j \in cs : \A k \in cs : j <= k
                 hasPrev == i > 1
                 hasNext == i < Len(toks)
                 before == SubSeq(toks, 1, i - 1)
                 after == SubSeq(toks, i + 1, Len(toks))
                 drop == \/ ~hasPrev
                         \/ ~hasNext
                         \/ is_whitespace(toks[i - 1])
                         \/ IsPunct(toks[i - 1], "(")
                         \/ is_whitespace(toks[i + 1])
                         \/ IsPunct(toks[i + 1], ")")
                 keepGap == ~drop \/ (hasPrev /\ ~IsPunct(toks[i - 1], "("))
             IN  StripComments(before
                               \o (IF keepGap THEN <<InsertToken(toks[i])>> ELSE <<>>)
                               \o after)

\* SerializerUnicode: the statement's text with every line right-stripped
\* (new lines inside a literal are inside its token and are kept).
Serialize(toks) ==
    LET trailing(i) ==
            /\ toks[i].k = "Whitespace"
            /\ \E j \in (i + 1)..(Len(toks) + 1) :
                  /\ j = Len(toks) + 1 \/ toks[j].k = "Newline"
                  /\ \A m \in (i + 1)..(j - 1) : toks[m].k = "Whitespace"
        keep == [i \in 1..Len(toks) |-> IF trailing(i) THEN <<>> ELSE toks[i].v]
    IN  Flatten(keep)

\* sqlparse.format(sql, strip_comments=True): split, strip each statement's
\* comments, serialize, join.
Format(s) ==
    LET stmts == Parse(s)
    IN  Flatten([n \in 1..Len(stmts) |-> Serialize(StripComments(stmts[n]))])

\* str.strip().
RECURSIVE LStrip(_)
LStrip(s) == IF s # <<>> /\ Head(s) \in {" ", "\n"} THEN LStrip(Tail(s)) ELSE s

RECURSIVE RStrip(_)
RStrip(s) ==
    IF s # <<>> /\ s[Len(s)] \in {" ", "\n"} THEN RStrip(SubSeq(s, 1, Len(s) - 1)) ELSE s

Strip(s) == LStrip(RStrip(s))

\* get_type that takes every DML statement for a SELECT.
get_type_dml_is_select(stmt) ==
    LET real == {j \in 1..Len(stmt) :
                    stmt[j].k \notin {"Whitespace", "Newline", "CommentSingle",
                                      "CommentMultiline", "CommentMultilineHint"}}
    IN  IF real = {} THEN "UNKNOWN"
        ELSE LET t == stmt[CHOOSE j \in real : \A k \in real : j <= k]
             IN  IF t.k = "DML" THEN "SELECT"
                 ELSE IF t.k = "DDL" THEN "DROP" ELSE "UNKNOWN"

\* Statement.get_type: the first token that is neither white space nor a
\* comment decides.
get_type(stmt) ==
    LET real == {j \in 1..Len(stmt) : ~is_whitespace(stmt[j]) /\ ~is_comment(stmt[j])}
    IN  IF real = {} THEN "UNKNOWN"
        ELSE LET t == stmt[CHOOSE j \in real : \A k \in real : j <= k]
             IN  IF t.k \in {"DML", "DDL"} THEN Upper(t.v[1]) ELSE "UNKNOWN"

\* ------------------------------------------------------------- validator

ErrEmpty == <<"Validation Error: Query is empty after stripping comments.">>

ErrSyntax == <<"Validation Error: Invalid SQL syntax.">>

ErrMultiple == <<"Validation Error: Multiple SQL statements are not allowed.">>

ErrNotSelect(type) ==
    <<"Validation Error: Only SELECT statements are allowed. Found:", type>>

ErrForbidden(word) == <<"Validation Error: Forbidden keyword found:", word>>

ErrUnexpected == <<"An unexpected validation error occurred">>

Accepted(s) == [sql |-> Some(s), err |-> None]

Rejected(e) == [sql |-> None, err |-> Some(e)]

\* The token the forbidden-keyword loop stops at, or 0.
FirstForbidden(stmt) ==
    LET bad == {j \in 1..Len(stmt) :
                   is_keyword(stmt[j]) /\ Upper(stmt[j].v[1]) \in FORBIDDEN_KEYWORDS}
    IN  IF bad = {} THEN 0 ELSE CHOOSE j \in bad : \A k \in bad : j <= k

\* What validate_sql_query returns when all checks pass.
ValidatedSql(raw, stripped_sql) == stripped_sql

\* sql_validator.validate_sql_query.  A text that is no string (None) makes
\* sqlparse raise, which the except clause turns into an error.
validate_sql_query(q) ==
    IF q.type # "str" THEN Rejected(ErrUnexpected)
    ELSE LET stripped_sql == Strip(Format(q.s))
             parsed == Parse(stripped_sql)
         IN  IF stripped_sql = <<>> THEN Rejected(ErrEmpty)
             ELSE IF parsed = <<>> THEN Rejected(ErrSyntax)
             ELSE IF Len(parsed) > 1 THEN Rejected(ErrMultiple)
             ELSE IF get_type(parsed[1]) # "SELECT"
                  THEN Rejected(ErrNotSelect(get_type(parsed[1])))
             ELSE IF FirstForbidden(parsed[1]) # 0
                  THEN Rejected(ErrForbidden(
                           Upper(parsed[1][FirstForbidden(parsed[1])].v[1])))
             ELSE Accepted(ValidatedSql(q.s, stripped_sql))

\* ---------------------------------------------------------------- decoder

\* Generation output is a sequence of pieces: prose without braces, a fence
\* marker, a brace, or one "key": value member of an object (the commas and
\* the white space between members are left out).
Piece(t) == [t |-> t, key |-> "", val |-> JNull]

Member(k, v) == [t |-> "member", key |-> k, val |-> v]

P == Piece("prose")

F == Piece("fence")

LB == Piece("{")

RB == Piece("}")

\* content.find('{') and content.rfind('}'); 0 stands for -1.
Find(text, t) ==
    LET hits == {j \in 1..Len(text) : text[j].t = t}
    IN  IF hits = {} THEN 0 ELSE CHOOSE j \in hits : \A k \in hits : j <= k

RFind(text, t) ==
    LET hits == {j \in 1..Len(text) : text[j].t = t}
    IN  IF hits = {} THEN 0 ELSE CHOOSE j \in hits : \A k \in hits : j >= k

\* The value json.loads gives a key of an object text: the last member of
\* that key wins.
Lookup(text, key) ==
    LET hits == {j \in 1..Len(text) : text[j].t = "member" /\ text[j].key = key}
    IN  text[CHOOSE j \in hits : \A k \in hits : j >= k].val

\* json.loads: the text parses when it is exactly one object; anything
\* before or after it makes json.loads raise.  The parsed dict is given by
\* its keys and the values of the two keys the decoder reads.
JsonLoads(text) ==
    IF /\ Len(text) >= 2
       /\ text[1].t = "{"
       /\ text[Len(text)].t = "}"
       /\ \A j \in 2..(Len(text) - 1) : text[j].t = "member"
    THEN LET keys == {text[j].key : j \in 2..(Len(text) - 1)}
         IN  Some([keys |-> keys,
                   explanation |-> IF "explanation" \in keys
                                   THEN Lookup(text, "explanation") ELSE JNull,
                   sqlQuery |-> IF "sqlQuery" \in keys
                                THEN Lookup(text, "sqlQuery") ELSE JNull])
    ELSE None

ErrNoContent == <<"OpenRouter API returned no message content in the expected format">>

ErrNoFields ==
    <<"DeepSeek/OpenRouter API returned content but it did not contain the expected JSON fields">>

\* The slice the decoder falls back to: from the first "{" to the last "}".
BraceSlice(content) ==
    LET start == Find(content, "{")
        end == RFind(content, "}")
    IN  IF start # 0 /\ end # 0 /\ end > start THEN Some(SubSeq(content, start, end))
        ELSE None

\* Whether a parsed value counts as the response.
HasFields(parsed) ==
    "explanation" \in parsed.keys /\ "sqlQuery" \in parsed.keys

\* get_ai_response from the message content on: (response, error).
Decode(content) ==
    IF content = <<>> THEN [response |-> None, err |-> Some(ErrNoContent)]
    ELSE LET direct == JsonLoads(content)
             slice == BraceSlice(content)
             parsed == IF direct # None THEN direct
                       ELSE IF slice # None THEN JsonLoads(slice[1])
                       ELSE None
         IN  IF parsed # None /\ HasFields(parsed[1])
             THEN [response |-> Some([explanation |-> parsed[1].explanation,
                                      sqlQuery |-> parsed[1].sqlQuery]),
                   err |-> None]
             ELSE [response |-> None, err |-> Some(ErrNoFields)]

\* The call of the generation service, as get_ai_response sees it.
ErrNotConfigured == <<"OpenRouter API not configured.">>

ErrBadKey == <<"Invalid DeepSeek API key; it must start with 'sk-or-'.">>

ErrHttp == <<"DeepSeek/OpenRouter API returned HTTP">>

ErrCall == <<"Error calling DeepSeek/OpenRouter API">>

\* ai_service.get_ai_response(user_prompt, schema), given what the
\* environment and the service answer: g.configured (both variables set),
\* g.key_ok (the key starts with sk-or-), g.http ("ok", "status", "raise")
\* and g.content (the message content).
get_ai_response(g) ==
    IF ~g.configured THEN [response |-> None, err |-> Some(ErrNotConfigured)]
    ELSE IF ~g.key_ok THEN [response |-> None, err |-> Some(ErrBadKey)]
    ELSE IF g.http = "status" THEN [response |-> None, err |-> Some(ErrHttp)]
    ELSE IF g.http = "raise" THEN [response |-> None, err |-> Some(ErrCall)]
    ELSE Decode(g.content)

\* The st.error calls get_ai_response makes itself before it returns: one for
\* a key without the sk-or- prefix, one for an HTTP error status.
ErrorsShownByAiResponse(g) ==
    IF g.configured /\ ~g.key_ok THEN 1
    ELSE IF g.configured /\ g.key_ok /\ g.http = "status" THEN 1
    ELSE 0

\* ----------------------------------------------------- schema introspection

ErrNoTables ==
    "Error: No tables found in the database. The read-only user may not have proper permissions."

ErrInspect == "Error inspecting schema:"

\* The text of one table: CREATE TABLE name ( col type, ... );
RECURSIVE ColumnsText(_, _)
ColumnsText(columns, i) ==
    IF i > Len(columns) THEN <<>>
    ELSE <<columns[i].name, columns[i].type>>
         \o (IF i < Len(columns) THEN <<",\n">> ELSE <<>>)
         \o ColumnsText(columns, i + 1)

TableText(table) ==
    <<"CREATE TABLE", table.name, "(\n">> \o ColumnsText(table.columns, 1) \o <<"\n);\n\n">>

\* The body of ai_service.get_database_schema on a database d: d.raises
\* (inspection raises) and d.tables (the tables the inspector lists).
InspectSchema(d) ==
    IF d.raises THEN <<ErrInspect>>
    ELSE LET schema_str == Flatten([n \in 1..Len(d.tables) |-> TableText(d.tables[n])])
         IN  IF schema_str = <<>> THEN <<ErrNoTables>> ELSE schema_str

\* get_database_schema under @st.cache_data(ttl=600): the argument _engine is
\* not hashed, so the one entry answers every call until it expires.
get_database_schema(cache, d) == IF cache # None THEN cache[1] ELSE InspectSchema(d)

\* Whether a piece of schema text has the substring "Error".
HasErrorText(lexeme) == lexeme \in {ErrNoTables, ErrInspect, "ErrorLog"}

\* app.py: "Error" in schema.
SchemaCheckFails(text) == \E j \in 1..Len(text) : HasErrorText(text[j])

\* ------------------------------------------------------------ the pipeline

Stages ==
    <<"get_database_schema", "get_ai_response", "validate_sql_query", "execute_sql_query">>

\* The script without st.stop() after a failed execution.
ProceedPastExecuteError(stage, failed) ==
    IF failed /\ stage # "execute_sql_query" THEN "stopped"
    ELSE CASE stage = "get_database_schema" -> "get_ai_response"
           [] stage = "get_ai_response" -> "validate_sql_query"
           [] stage = "validate_sql_query" -> "execute_sql_query"
           [] OTHER -> "save"

\* Where the script goes after a stage: st.stop() on an error, else on.
Proceed(stage, failed) ==
    IF failed THEN "stopped"
    ELSE CASE stage = "get_database_schema" -> "get_ai_response"
           [] stage = "get_ai_response" -> "validate_sql_query"
           [] stage = "validate_sql_query" -> "execute_sql_query"
           [] OTHER -> "save"

\* if error: the truth value of Optional[str].
ErrorPopulated(e) == e # None /\ e[1] # <<>>

\* Executing the generation's own text.
ExecArgRaw(response, validated) == response.sqlQuery.s

\* The SQL handed to sql_executor.execute_sql_query.
ExecArg(response, validated) == validated[1]

\* The SQL stored in the assistant message.
SavedSql(response, validated) == validated[1]

\* save_message: the message is stored, or, when the application database
\* raises, an error is shown instead.
save_message(sv, sh, role, content, db_ok) ==
    [saved |-> IF db_ok THEN Append(sv, [role |-> role, content |-> content]) ELSE sv,
     shown |-> IF db_ok THEN sh ELSE sh + 1]

\* st.error(e); save_message(..., "system", {"error": e}) and, when not
\* failed, nothing.
Report(sv, sh, failed, e, db_ok) ==
    IF failed THEN save_message(sv, sh + 1, "system", [error |-> e], db_ok)
    ELSE [saved |-> sv, shown |-> sh]

\* sql_executor.execute_sql_query(sql, engine): (results, error), given what
\* the engine does with the query.
execute_sql_query(sql, outcome) ==
    IF outcome = "rows" THEN [results |-> Some(<<"row">>), err |-> None]
    ELSE [results |-> None, err |-> Some(<<outcome>>)]

ExecOutcomes ==
    {"rows", "ConnectionError", "TimeoutError", "SyntaxOrSemanticError", "PermissionError"}

Column(n, t) == [name |-> n, type |-> t]

Databases ==
    {[raises |-> TRUE, tables |-> <<>>],
     [raises |-> FALSE, tables |-> <<>>],
     [raises |-> FALSE,
      tables |-> <<[name |-> "users",
                    columns |-> <<Column("id", "INTEGER"), Column("name", "TEXT")>>]>>],
     [raises |-> FALSE,
      tables |-> <<[name |-> "ErrorLog", columns |-> <<Column("id", "INTEGER")>>]>>]}

\* SQL texts a generation may propose: the examples of the specification.
SelectLimit == <<"SELECT", " ", "x", " ", "x", " ", "x">>

SelectWithComment ==
    <<"SELECT", " ", "x", " ", "x", " ", "--", " ", ";", " ", "drop", " ", "x", " ", "x">>

DeleteFromUsers == <<"DELETE", " ", "x", " ", "x">>

TwoStatements == <<"SELECT", " ", "x", ";", "/*", "x", "*/", " ", "drop", " ", "x">>

TwoSelects == <<"SELECT", " ", "x", ";", " ", "--", "x", "\n", "SELECT", " ", "x">>

SemicolonInComment == <<"SELECT", " ", "x", " ", "/*", ";", "drop", "*/", " ", "x">>

SemicolonInLiteral == <<"SELECT", " ", "'", "x", ";", "--", "x", "'", " ", "x">>

SetCommand == <<"SET", " ", "x">>

TwoComments == <<"SELECT", " ", "x", "/*", "x", "*/", "x", " ", "--", "x">>

ProposedSql ==
    {JStr(SelectLimit), JStr(SelectWithComment), JStr(DeleteFromUsers), JStr(TwoStatements),
     JStr(TwoSelects), JStr(SemicolonInComment), JStr(SemicolonInLiteral), JStr(SetCommand),
     JStr(TwoComments), JStr(<<>>), JNull}

Explained == Member("explanation", JStr(<<"count users">>))

\* The message contents the generation service may answer with.
Contents ==
    {<<>>, <<P>>}
    \cup {<<LB, Explained, RB>>}
    \cup {<<LB, Explained, Member("sqlQuery", q), RB>> : q \in ProposedSql}
    \cup {<<P, F, LB, Explained, Member("sqlQuery", q), RB, F>> : q \in ProposedSql}

Generations ==
    {[configured |-> FALSE, key_ok |-> FALSE, http |-> "ok", content |-> <<>>],
     [configured |-> TRUE, key_ok |-> FALSE, http |-> "ok", content |-> <<>>],
     [configured |-> TRUE, key_ok |-> TRUE, http |-> "status", content |-> <<>>],
     [configured |-> TRUE, key_ok |-> TRUE, http |-> "raise", content |-> <<>>]}
    \cup {[configured |-> TRUE, key_ok |-> TRUE, http |-> "ok", content |-> c] : c \in Contents}

\* What get_database_schema returned as an error: one of its two error texts.
SchemaError(text) == IF text[1] \in {ErrNoTables, ErrInspect} THEN Some(text) ELSE None

Call(fn, arg, err) == [fn |-> fn, arg |-> arg, err |-> err]

\* A user prompt arrives (st.chat_input): the user message is saved and the
\* pipeline starts; nothing of the previous request is kept but the cache.
Prompt ==
    /\ pc \in {"idle", "stopped", "rerun"}
    /\ \E db_ok \in BOOLEAN :
          LET m == save_message(<<>>, 0, "user", [text |-> "prompt"], db_ok)
          IN  saved' = m.saved /\ shown' = m.shown
    /\ pc' = "get_database_schema"
    /\ schema' = <<>>
    /\ ai_response' = None
    /\ error' = None
    /\ validated_sql' = None
    /\ results' = None
    /\ calls' = <<>>
    /\ UNCHANGED schema_cache

\* 1. Get Schema.
GetSchema ==
    /\ pc = "get_database_schema"
    /\ \E d \in Databases, db_ok \in BOOLEAN :
          LET text == get_database_schema(schema_cache, d)
              failed == SchemaCheckFails(text)
              m == Report(saved, shown, failed, text, db_ok)
          IN  /\ schema' = text
              /\ schema_cache' = Some(text)
              /\ saved' = m.saved
              /\ shown' = m.shown
              /\ pc' = Proceed("get_database_schema", failed)
              /\ calls' = Append(calls, Call("get_database_schema", <<>>, SchemaError(text)))
    /\ UNCHANGED <<ai_response, error, validated_sql, results>>

\* The cache entry's ttl passes.
ExpireSchema ==
    /\ schema_cache # None
    /\ schema_cache' = None
    /\ UNCHANGED <<pc, schema, ai_response, error, validated_sql, results, calls, saved,
                   shown>>

\* 2. Get AI Response.
GetAiResponse ==
    /\ pc = "get_ai_response"
    /\ \E g \in Generations, db_ok \in BOOLEAN :
          LET r == get_ai_response(g)
              failed == ErrorPopulated(r.err)
              m == Report(saved, shown + ErrorsShownByAiResponse(g), failed, r.err, db_ok)
          IN  /\ ai_response' = r.response
              /\ error' = r.err
              /\ saved' = m.saved
              /\ shown' = m.shown
              /\ pc' = Proceed("get_ai_response", failed)
              /\ calls' = Append(calls, Call("get_ai_response", schema, r.err))
    /\ UNCHANGED <<schema, validated_sql, results, schema_cache>>

\* 3. Validate SQL.
ValidateSql ==
    /\ pc = "validate_sql_query"
    /\ \E db_ok \in BOOLEAN :
          LET r == validate_sql_query(ai_response[1].sqlQuery)
              failed == ErrorPopulated(r.err)
              m == Report(saved, shown, failed, r.err, db_ok)
          IN  /\ validated_sql' = r.sql
              /\ error' = r.err
              /\ saved' = m.saved
              /\ shown' = m.shown
              /\ pc' = Proceed("validate_sql_query", failed)
              /\ calls' = Append(calls, Call("validate_sql_query", ai_response[1].sqlQuery.s,
                                              r.err))
    /\ UNCHANGED <<schema, ai_response, results, schema_cache>>

\* 4. Execute SQL.
ExecuteSql ==
    /\ pc = "execute_sql_query"
    /\ \E outcome \in ExecOutcomes, db_ok \in BOOLEAN :
          LET r == execute_sql_query(ExecArg(ai_response[1], validated_sql), outcome)
              failed == ErrorPopulated(r.err)
              m == Report(saved, shown, failed, r.err, db_ok)
          IN  /\ results' = r.results
              /\ error' = r.err
              /\ saved' = m.saved
              /\ shown' = m.shown
              /\ pc' = Proceed("execute_sql_query", failed)
              /\ calls' = Append(calls, Call("execute_sql_query",
                                              ExecArg(ai_response[1], validated_sql), r.err))
    /\ UNCHANGED <<schema, ai_response, validated_sql, schema_cache>>

\* 5. Save and display success, then st.rerun().
SaveSuccess ==
    /\ pc = "save"
    /\ \E db_ok \in BOOLEAN :
          LET m == save_message(saved, shown, "assistant",
                                [explanation |-> ai_response[1].explanation,
                                 sqlQuery |-> SavedSql(ai_response[1], validated_sql),
                                 results |-> results],
                                db_ok)
          IN  saved' = m.saved /\ shown' = m.shown
    /\ pc' = "rerun"
    /\ UNCHANGED <<schema, ai_response, error, validated_sql, results, schema_cache, calls>>

\* ------------------------------------------------------- specifications

VIdle == vpc = "off" /\ sql_query = JNull /\ verdict = Rejected(<<>>) /\ reverdict = Rejected(<<>>)

DIdle == dpc = "off" /\ parts = <<>> /\ decoded = None /\ decoded0 = None

SIdle == engine_db = <<>> /\ entry = None /\ entry_from = None /\ answer = None

PIdle ==
    /\ pc = "off"
    /\ schema = <<>>
    /\ ai_response = None
    /\ error = None
    /\ validated_sql = None
    /\ results = None
    /\ schema_cache = None
    /\ calls = <<>>
    /\ saved = <<>>
    /\ shown = 0

\* The request pipeline.
Init ==
    /\ VIdle
    /\ DIdle
    /\ SIdle
    /\ pc = "idle"
    /\ schema = <<>>
    /\ ai_response = None
    /\ error = None
    /\ validated_sql = None
    /\ results = None
    /\ schema_cache = None
    /\ calls = <<>>
    /\ saved = <<>>
    /\ shown = 0

Next ==
    \/ Prompt /\ UNCHANGED <<vvars, dvars, svars>>
    \/ GetSchema /\ UNCHANGED <<vvars, dvars, svars>>
    \/ ExpireSchema /\ UNCHANGED <<vvars, dvars, svars>>
    \/ GetAiResponse /\ UNCHANGED <<vvars, dvars, svars>>
    \/ ValidateSql /\ UNCHANGED <<vvars, dvars, svars>>
    \/ ExecuteSql /\ UNCHANGED <<vvars, dvars, svars>>
    \/ SaveSuccess /\ UNCHANGED <<vvars, dvars, svars>>

Spec == Init /\ [][Next]_vars

\* Runs of validate_sql_query alone, on every text of the bounded alphabet,
\* the proposed texts and None.
SeqsUpTo(S, n) == UNION {[1..m -> S] : m \in 0..n}

SqlTexts == SeqsUpTo(Lexemes, MaxSqlLen)

VInit ==
    /\ vpc = "start"
    /\ sql_query \in {JStr(s) : s \in SqlTexts} \cup ProposedSql
    /\ verdict = Rejected(<<>>)
    /\ reverdict = Rejected(<<>>)
    /\ DIdle
    /\ PIdle
    /\ SIdle

\* One call of validate_sql_query.
Validate ==
    /\ vpc = "start"
    /\ verdict' = validate_sql_query(sql_query)
    /\ vpc' = "validated"
    /\ UNCHANGED <<sql_query, reverdict, dvars, pvars, svars>>

\* A second call, on the text the first call accepted.
Revalidate ==
    /\ vpc = "validated"
    /\ verdict.err = None
    /\ reverdict' = validate_sql_query(JStr(verdict.sql[1]))
    /\ vpc' = "revalidated"
    /\ UNCHANGED <<sql_query, verdict, dvars, pvars, svars>>

VNext == Validate \/ Revalidate

SpecValidate == VInit /\ [][VNext]_vars

\* Runs of the decoder alone.  A generation output is put together as
\* pre, [fence], obj, [fence], mid, obj2, post: one object, bare or in a fenced
\* block, with prose around it, or two objects one after the other.
Members ==
    {Member("explanation", JStr(<<"a">>)), Member("explanation", JStr(<<"b">>)),
     Member("explanation", JStr(<<>>)),
     Member("sqlQuery", JStr(<<"SELECT">>)), Member("sqlQuery", JStr(<<>>)),
     Member("sqlQuery", JNull)}

Objects == {<<LB>> \o ms \o <<RB>> : ms \in SeqsUpTo(Members, MaxMembers)}

Prose == SeqsUpTo({P, LB, RB}, MaxProse)

Assemble(p) ==
    p.pre \o (IF p.fenced THEN <<F>> ELSE <<>>) \o p.obj \o (IF p.fenced THEN <<F>> ELSE <<>>)
    \o p.mid \o p.obj2 \o p.post

\* One object, bare or fenced, with prose around it.
Wrapped(a, f, o, z) ==
    [pre |-> a, fenced |-> f, obj |-> o, mid |-> <<>>, obj2 |-> <<>>, post |-> z]

\* Two objects, one after the other.
Pair(o, m, o2) ==
    [pre |-> <<>>, fenced |-> FALSE, obj |-> o, mid |-> m, obj2 |-> o2, post |-> <<>>]

DInit ==
    /\ dpc = "start"
    /\ \/ \E a \in Prose, f \in BOOLEAN, o \in Objects, z \in Prose :
              parts = Wrapped(a, f, o, z)
       \/ \E o \in Objects, m \in {<<>>, <<P>>}, o2 \in Objects : parts = Pair(o, m, o2)
    /\ decoded = None
    /\ decoded0 = None
    /\ VIdle
    /\ PIdle
    /\ SIdle

\* The decoder on the whole output.
DecodeOutput ==
    /\ dpc = "start"
    /\ decoded' = Some(Decode(Assemble(parts)))
    /\ dpc' = "decoded"
    /\ UNCHANGED <<parts, decoded0, vvars, pvars, svars>>

\* The decoder on the text of the first object alone.
DecodeObject ==
    /\ dpc = "decoded"
    /\ decoded0' = Some(Decode(parts.obj))
    /\ dpc' = "compared"
    /\ UNCHANGED <<parts, decoded, vvars, pvars, svars>>

DNext == DecodeOutput \/ DecodeObject

SpecDecode == DInit /\ [][DNext]_vars

\* Runs of get_database_schema alone: calls with any engine, and with or
\* without a table allow-list, while the cache entry lives and after it expired.
Engines == {"engine1", "engine2"}

\* What a caller may pass for the allow-list: nothing, or a set of table names.
AllowLists == {None, Some({"users"}), Some({"orders"})}

\* A call get_database_schema(_engine) or get_database_schema(_engine, allow):
\* the function has the one parameter _engine, so a call that passes an
\* allow-list raises TypeError and nothing is returned or cached.
CallSchema(cache, d, allow) ==
    IF allow # None THEN [raised |-> TRUE, text |-> <<>>]
    ELSE [raised |-> FALSE, text |-> get_database_schema(cache, d)]

SInit ==
    /\ engine_db \in [Engines -> Databases]
    /\ entry = None
    /\ entry_from = None
    /\ answer = None
    /\ VIdle
    /\ DIdle
    /\ PIdle

\* One call of get_database_schema.
CallGetDatabaseSchema ==
    /\ \E e \in Engines, allow \in AllowLists :
          LET r == CallSchema(entry, engine_db[e], allow)
          IN  /\ answer' = Some([engine |-> e, allow |-> allow, raised |-> r.raised,
                                 text |-> r.text, hit |-> ~r.raised /\ entry # None])
              /\ entry' = IF r.raised THEN entry ELSE Some(r.text)
              /\ entry_from' = IF r.raised \/ entry # None THEN entry_from ELSE Some(e)
    /\ UNCHANGED <<engine_db, vvars, dvars, pvars>>

\* The entry's ttl passes.
ExpireEntry ==
    /\ entry # None
    /\ entry' = None
    /\ entry_from' = None
    /\ UNCHANGED <<engine_db, answer, vvars, dvars, pvars>>

SNext == CallGetDatabaseSchema \/ ExpireEntry

SpecSchema == SInit /\ [][SNext]_vars

\* ------------------------------------------------------------ properties

\* The calls of a stage in this request's log.
CallsOf(fn) == {i \in 1..Len(calls) : calls[i].fn = fn}

AssistantSaved == \E i \in 1..Len(saved) : saved[i].role = "assistant"

\* C1: in every request execute_sql_query is called at most once, after
\* validate_sql_query returned no error, and its argument is the text
\* validate_sql_query returned for the sqlQuery of this request, not the
\* sqlQuery itself.
C1_ExecuteOnlyValidated ==
    /\ Cardinality(CallsOf("execute_sql_query")) <= 1
    /\ \A i \in CallsOf("execute_sql_query") :
          /\ i > 1
          /\ calls[i - 1].fn = "validate_sql_query"
          /\ calls[i - 1].err = None
          /\ validated_sql # None
          /\ validated_sql = validate_sql_query(JStr(calls[i - 1].arg)).sql
          /\ calls[i].arg = validated_sql[1]
          /\ (calls[i].arg = calls[i - 1].arg => calls[i - 1].arg = validated_sql[1])

\* A request that executed a text other than the sqlQuery it was given.
C1_Witness ==
    \E i \in CallsOf("execute_sql_query") :
        i > 1 /\ calls[i].arg # calls[i - 1].arg /\ calls[i].arg = validated_sql[1]

\* C2: the stages are called in the order schema, generation, validation,
\* execution, one at a time; after a stage that returned an error no later
\* stage is called, the script has stopped and no assistant message is saved.
C2_StagesInOrder ==
    /\ Len(calls) <= Len(Stages)
    /\ \A i \in 1..Len(calls) : calls[i].fn = Stages[i]
    /\ pc \in {Stages[n] : n \in 1..Len(Stages)} => pc = Stages[Len(calls) + 1]
    /\ \A i \in 1..Len(calls) :
          ErrorPopulated(calls[i].err) =>
              /\ i = Len(calls)
              /\ pc = "stopped"
              /\ ~AssistantSaved
    /\ AssistantSaved => Len(calls) = Len(Stages)

\* A request stopped by validation, after two stages that succeeded.
C2_Witness ==
    /\ Len(calls) = 3
    /\ ErrorPopulated(calls[3].err)
    /\ pc = "stopped"

\* The tokens of a text that are no comments.
CodeTokens(s) == SelectSeq(Lex(s), LAMBDA t : t.k \notin
                     {"CommentSingle", "CommentMultiline", "CommentMultilineHint"})

\* The top-level statements of a text without its comments: the non-blank
\* stretches between the semicolons that are in no literal and no parenthesis.
RECURSIVE CountStatements(_, _, _, _)
CountStatements(toks, i, depth, open) ==
    IF i > Len(toks) THEN (IF open THEN 1 ELSE 0)
    ELSE LET t == toks[i]
         IN  IF t.k \in {"Whitespace", "Newline"}
             THEN CountStatements(toks, i + 1, depth, open)
             ELSE IF t.k = "Punctuation" /\ t.v = <<";">> /\ depth = 0
             THEN (IF open THEN 1 ELSE 0) + CountStatements(toks, i + 1, 0, FALSE)
             ELSE IF t.k = "Punctuation" /\ t.v = <<"(">>
             THEN CountStatements(toks, i + 1, depth + 1, TRUE)
             ELSE IF t.k = "Punctuation" /\ t.v = <<")">>
             THEN CountStatements(toks, i + 1, IF depth > 0 THEN depth - 1 ELSE 0, TRUE)
             ELSE CountStatements(toks, i + 1, depth, TRUE)

TopLevelStatements(s) == CountStatements(CodeTokens(s), 1, 0, FALSE)

HasComment(s) == CodeTokens(s) # Lex(s)

Validated == vpc # "start" /\ sql_query.type = "str"

Denied(w) == w \in {"DELETE", "drop", "SET"}

DeniedName(w) == IF w = "drop" THEN "DROP" ELSE w

\* The first token of a text that is neither white space nor a comment.
LeadingToken(s) ==
    LET code == SelectSeq(CodeTokens(s), LAMBDA t : t.k \notin {"Whitespace", "Newline"})
    IN  IF code = <<>> THEN [k |-> "none", v |-> <<"">>] ELSE code[1]

LeadsWithMutation(s) ==
    LeadingToken(s).k \in {"DML", "DDL", "Keyword", "Name"} /\ Denied(LeadingToken(s).v[1])

\* The kind sqlparse gives the leading command.
LeadingKind(s) ==
    IF LeadingToken(s).k \in {"DML", "DDL"} THEN DeniedName(LeadingToken(s).v[1])
    ELSE "UNKNOWN"

HasSemicolon(s) ==
    \E j \in 1..Len(CodeTokens(s)) :
        CodeTokens(s)[j].k = "Punctuation" /\ CodeTokens(s)[j].v = <<";">>

IsNotSelectError(e) == e # None /\ Len(e[1]) = 2 /\ e[1][1] = ErrNotSelect("")[1]

IsForbiddenError(e) == e # None /\ Len(e[1]) = 2 /\ e[1][1] = ErrForbidden("")[1]

Literals(s) == SelectSeq(Lex(s), LAMBDA t : t.k = "String")

\* C5: an accepted text is returned without its comments: the returned text
\* has no comment, it is one statement, its literals are those of the input,
\* and SELECT * FROM t -- ; DROP TABLE t is accepted as SELECT * FROM t.
C5_SanitizedHasNoComment ==
    /\ (Validated /\ verdict.err = None) =>
          /\ ~HasComment(verdict.sql[1])
          /\ TopLevelStatements(verdict.sql[1]) = 1
          /\ Literals(verdict.sql[1]) = Literals(sql_query.s)
    /\ (Validated /\ sql_query.s = SelectWithComment) =>
          verdict = Accepted(<<"SELECT", " ", "x", " ", "x">>)

\* C6: validating an accepted text again accepts it and returns it unchanged.
C6_RevalidationStable ==
    vpc = "revalidated" => reverdict = verdict /\ reverdict.err = None

\* A text that validation changed, validated again.
C6_Witness ==
    /\ vpc = "revalidated"
    /\ verdict.sql # Some(sql_query.s)
    /\ HasComment(sql_query.s)

\* The keyword tokens of a text that are on the denylist.
DeniedKeywords(s) ==
    SelectSeq(CodeTokens(s), LAMBDA t : t.k \in {"DML", "DDL", "Keyword"} /\ Denied(t.v[1]))

\* The text passed the checks that come before the keyword scan.
PassedClassification == verdict.err = None \/ IsForbiddenError(verdict.err)

\* C7: a single SELECT statement with a keyword token on the denylist, in
\* any case, is rejected with the forbidden-keyword error naming the first such
\* token; it is accepted only when it has none.
C7_ForbiddenKeywordRejected ==
    (Validated /\ PassedClassification) =>
        /\ DeniedKeywords(sql_query.s) # <<>> =>
              verdict = Rejected(ErrForbidden(DeniedName(DeniedKeywords(sql_query.s)[1].v[1])))
        /\ DeniedKeywords(sql_query.s) = <<>> => verdict.err = None

\* A SELECT with a lower-case drop, rejected.
C7_Witness ==
    /\ Validated
    /\ verdict = Rejected(ErrForbidden("DROP"))
    /\ \E j \in 1..Len(sql_query.s) : sql_query.s[j] = "drop"

\* An object text's value of a key, and whether it has the key.
HasKey(obj, key) == \E j \in 1..Len(obj) : obj[j].t = "member" /\ obj[j].key = key

HasBoth(obj) == HasKey(obj, "explanation") /\ HasKey(obj, "sqlQuery")

NonEmpty(v) == v.type = "str" /\ v.s # <<>>

\* C8: when the decoder returns a response, its explanation and its sqlQuery
\* are non-empty; an object with an empty or null field is an error.
C8_FieldsNonEmpty ==
    (dpc # "start" /\ decoded[1].response # None) =>
        /\ decoded[1].err = None
        /\ NonEmpty(decoded[1].response[1].explanation)
        /\ NonEmpty(decoded[1].response[1].sqlQuery)

\* C9: an object with both fields in a fenced block, with any prose before
\* and after, decodes to what the object alone decodes to, and that is a
\* response.
C9_FencedDecodesAsBare ==
    (dpc = "compared" /\ parts.fenced /\ parts.obj2 = <<>> /\ HasBoth(parts.obj)) =>
        /\ decoded0[1].err = None
        /\ decoded = decoded0

\* C10: an object missing a field followed by an object with both fields
\* decodes to the fields of the second object.
C10_SkipsIncompleteFragment ==
    (dpc # "start" /\ parts.obj2 # <<>> /\ ~HasBoth(parts.obj) /\ HasBoth(parts.obj2)) =>
        decoded[1] = Decode(parts.obj2) /\ decoded[1].err = None

\* The names of the tables of a database, and whether a text is a structural
\* description (the text of at least one table).
TableNames(d) == {d.tables[n].name : n \in 1..Len(d.tables)}

IsDescription(text) == \E j \in 1..Len(text) : text[j] = "CREATE TABLE"

\* The last call was made with an allow-list that matches none of the tables
\* of a database that has tables.
AllowListMatchesNone ==
    /\ answer # None
    /\ answer[1].allow # None
    /\ ~engine_db[answer[1].engine].raises
    /\ TableNames(engine_db[answer[1].engine]) # {}
    /\ answer[1].allow[1] \cap TableNames(engine_db[answer[1].engine]) = {}

\* The last call inspected (no cache entry answered it) a database without
\* tables.
InspectedNoTables ==
    /\ answer # None
    /\ answer[1].allow = None
    /\ ~answer[1].hit
    /\ ~engine_db[answer[1].engine].raises
    /\ TableNames(engine_db[answer[1].engine]) = {}

\* C11: introspection never gives an empty text; on a database without
\* tables it returns the no-tables message, and with an allow-list that
\* matches no existing table it returns another explicit message, which is
\* neither the no-tables message nor a description.
C11_ExplicitMessages ==
    /\ answer # None /\ ~answer[1].raised => answer[1].text # <<>>
    /\ InspectedNoTables => answer[1].text = <<ErrNoTables>>
    /\ AllowListMatchesNone =>
          /\ ~answer[1].raised
          /\ answer[1].text # <<>>
          /\ answer[1].text # <<ErrNoTables>>
          /\ ~IsDescription(answer[1].text)

\* The part of C11 without the allow-list: a returned text is never empty and
\* a database without tables gives the no-tables message.
C11_NeverEmpty ==
    /\ answer # None /\ ~answer[1].raised => answer[1].text # <<>>
    /\ InspectedNoTables => answer[1].text = <<ErrNoTables>>

\* A call with an allow-list that matches no table of the database.
C11_Witness == AllowListMatchesNone

\* The last call was answered from the cache entry.
AnsweredFromCache == answer # None /\ ~answer[1].raised /\ answer[1].hit

\* C12: a call that is answered from the cache is a call with the engine the
\* cached description was computed from.
C12_CacheKeyedByEngine ==
    AnsweredFromCache => entry_from = Some(answer[1].engine)

\* A call answered from the cache with the engine that filled it.
C12_Witness == AnsweredFromCache /\ entry_from = Some(answer[1].engine)

\* The system messages saved and the stage that failed in this request.
SystemSaved == {i \in 1..Len(saved) : saved[i].role = "system"}

UserSaved == saved # <<>> /\ saved[1].role = "user"

\* The request stopped on a failed stage (its user message had been saved
\* without an error).
StoppedOnFailure ==
    /\ pc = "stopped"
    /\ calls # <<>>
    /\ UserSaved

\* C13: in a request that a stage failed, no stage was called twice, exactly
\* one error was shown and exactly one system message was saved, and the
\* request has stopped.
C13_ReportedOnce ==
    /\ \A i, j \in 1..Len(calls) : calls[i].fn = calls[j].fn => i = j
    /\ StoppedOnFailure =>
          /\ shown = 1
          /\ Cardinality(SystemSaved) = 1

\* A request stopped by a key without the sk-or- prefix.
C13_Witness ==
    /\ StoppedOnFailure
    /\ calls[Len(calls)].fn = "get_ai_response"
    /\ calls[Len(calls)].err = Some(ErrBadKey)

\* The schema stage has just returned a structural description.
SchemaDescribed ==
    /\ Len(calls) = 1
    /\ calls[1].fn = "get_database_schema"
    /\ IsDescription(schema)

\* C14: when get_database_schema returned a description, whatever the names
\* in it, the request goes on to the generation stage and no schema error is
\* reported.
C14_DescriptionProceeds ==
    SchemaDescribed =>
        /\ pc = "get_ai_response"
        /\ SystemSaved = {}
        /\ shown = (IF UserSaved THEN 0 ELSE 1)

\* A description that let the request go on.
C14_Witness == SchemaDescribed /\ pc = "get_ai_response"

====
